---- MODULE Spec2Model ----
(***************************************************************************)
(* Model of the RAG chat service: app/main.py (the /chat handler and the   *)
(* SSE generator) and app/client.py (SiliconFlowClient, RetrievalClient).  *)
(*                                                                         *)
(* Text is a sequence of one-character strings; the two rewrite markers    *)
(* are atomic tokens of such a sequence.  The empty text is <<>>.          *)
(* Optional[int] is an integer with 0 for None (the schemas bound every    *)
(* given value to 1..50, so `x or y` reads 0 exactly when x is None).      *)
(***************************************************************************)
EXTENDS Integers, Sequences, FiniteSets, TLC

\* ------------------------------------------------------------------ bounds

\* Longest rewrite reply content, in tokens.
MaxContentLen == 4
\* Most items in one retrieval reply.
MaxDocs == 3
\* Largest top_k, configured or requested.
MaxTopK == 2
\* Most upstream lines read from one completion stream before it ends.
MaxLines == 2
\* Longest text fragment of a completion stream whose frames are rendered.
MaxFragmentLen == 3

\* ------------------------------------------------------------------- text

StartMarker == "<rewrite>"
EndMarker == "</rewrite>"
Whitespace == {" ", "\n"}

\* All texts over alphabet `chars` of length at most n.
Texts(chars, n) == UNION {[1..k -> chars] : k \in 0..n}

\* str.strip(): leading and trailing whitespace removed.
RECURSIVE LStrip(_)
LStrip(s) ==
  IF s # <<>> /\ Head(s) \in Whitespace THEN LStrip(Tail(s)) ELSE s

RECURSIVE RStrip(_)
RStrip(s) ==
  IF s # <<>> /\ s[Len(s)] \in Whitespace
  THEN RStrip(SubSeq(s, 1, Len(s) - 1))
  ELSE s

Strip(s) == RStrip(LStrip(s))

\* Positions of token m in s.
Occurrences(s, m) == {i \in 1..Len(s) : s[i] = m}

Max(S) == CHOOSE x \in S : \A y \in S : y <= x
Min(S) == CHOOSE x \in S : \A y \in S : x <= y

\* s.split(m)[-1]: what follows the last m, all of s when m does not occur.
SplitLast(s, m) ==
  IF Occurrences(s, m) = {} THEN s
  ELSE SubSeq(s, Max(Occurrences(s, m)) + 1, Len(s))

\* s.rsplit(m, 1)[0]: what precedes the last m, all of s when m does not occur.
RsplitFirst(s, m) ==
  IF Occurrences(s, m) = {} THEN s
  ELSE SubSeq(s, 1, Max(Occurrences(s, m)) - 1)

\* "".join(parts)
RECURSIVE Join(_)
Join(parts) ==
  IF parts = <<>> THEN <<>> ELSE Head(parts) \o Join(Tail(parts))

\* ------------------------------------------------------------- exceptions

\* isinstance(exc, cls) for the exception classes the handlers name.
\* httpx.HTTPStatusError and the transport errors derive from httpx.HTTPError;
\* httpx.ResponseNotRead derives from httpx.StreamError, a RuntimeError.
IsInstance(exc, cls) ==
  \/ exc = cls
  \/ cls = "HTTPError" /\ exc \in {"HTTPStatusError", "TransportError"}
  \/ cls = "RuntimeError" /\ exc = "ResponseNotRead"

\* --------------------------------------------------- completion upstream

UpstreamStatuses == {429, 503}

\* What one buffered POST to the completion service can come to: a transport
\* failure, a non-2xx status, a 2xx body that is no JSON, or a JSON body of
\* one of the shapes the parsers tell apart.  `content` is the text of
\* choices[0].message.content when that is a string.
ReplyShapes ==
  {"not_object", "choices_missing", "choices_null", "choices_empty",
   "choice_not_object", "message_missing", "message_null",
   "content_missing", "content_null", "content_not_string"}

CompletionReplies(contents) ==
  {[kind |-> "transport_error", status |-> 0, content |-> <<>>],
   [kind |-> "undecodable", status |-> 200, content |-> <<>>]}
  \cup {[kind |-> "status_error", status |-> s, content |-> <<>>] :
          s \in UpstreamStatuses}
  \cup {[kind |-> k, status |-> 200, content |-> <<>>] : k \in ReplyShapes}
  \cup {[kind |-> "content", status |-> 200, content |-> c] : c \in contents}

Return(v) == [kind |-> "return", value |-> v, exc |-> ""]
Raise(e) == [kind |-> "raise", value |-> <<>>, exc |-> e]

\* Settings.require_api_key: whether the credential is present.
require_api_key(cfg) == cfg.api_key

\* ------------------------------------------------------- rewrite_query

\* Line 92: content.split("<rewrite>")[-1].rsplit("</rewrite>", 1)[0].strip()
ExtractRewrite(content) ==
  Strip(RsplitFirst(SplitLast(content, StartMarker), EndMarker))

\* Lines 79-94: the reply parsed, once the POST came back 2xx with JSON `reply`.
ParseRewriteNoStrip(query, reply) ==
  IF reply.kind = "not_object" THEN Raise("AttributeError")
  ELSE IF reply.kind \in {"choices_missing", "choices_null", "choices_empty"}
  THEN Return(query)
  ELSE IF reply.kind = "choice_not_object" THEN Raise("AttributeError")
  ELSE IF reply.kind = "content_not_string" THEN Raise("AttributeError")
  ELSE IF reply.content = <<>> THEN Return(query)
  ELSE Return(ExtractRewrite(Strip(reply.content)))

ParseRewrite(query, reply) ==
  IF reply.kind = "not_object" THEN Raise("AttributeError")
  ELSE IF reply.kind \in {"choices_missing", "choices_null", "choices_empty"}
  THEN Return(query)
  ELSE IF reply.kind = "choice_not_object" THEN Raise("AttributeError")
  ELSE IF reply.kind = "content_not_string" THEN Raise("AttributeError")
  ELSE IF Strip(reply.content) = <<>> THEN Return(query)
  ELSE Return(ExtractRewrite(Strip(reply.content)))

\* Lines 70-77: the POST, raise_for_status() and response.json().
RewriteResponse(query, reply) ==
  IF reply.kind = "transport_error" THEN Raise("TransportError")
  ELSE IF reply.kind = "status_error" THEN Raise("HTTPStatusError")
  ELSE IF reply.kind = "undecodable" THEN Raise("ValueError")
  ELSE ParseRewrite(query, reply)

\* Whether rewrite_query gets as far as its POST (lines 52-68).
RewriteSendsIgnoringEnabled(cfg) == require_api_key(cfg)

RewriteSends(cfg) == cfg.rewriter_enabled /\ require_api_key(cfg)

\* rewrite_query before its POST: the result when no POST is made.
RewriteWithoutCall(cfg, query) ==
  IF ~cfg.rewriter_enabled THEN Return(query) ELSE Raise("RuntimeError")

\* SiliconFlowClient.rewrite_query as a whole, `reply` being what the
\* completion service answers if it is asked.
rewrite_query(cfg, query, reply) ==
  IF RewriteSends(cfg) THEN RewriteResponse(query, reply)
  ELSE RewriteWithoutCall(cfg, query)

\* ---------------------------------------------------------------- state

VARIABLES
  settings,         \* main.py:21, the configuration read once at start-up
  request,          \* the ChatRequest being handled
  pc,               \* position of the /chat handler
  rewritten_query,  \* chat's local of that name
  retrieved_docs,   \* chat's local of that name
  trimmed_docs,     \* chat's local, later the generator's `documents`
  messages,         \* chat's local, later the generator's `messages`
  inflight,         \* the upstream call awaiting its answer
  calls,            \* upstream calls issued so far, per service
  response,         \* the HTTP response of the request
  gen_pc,           \* position of the SSE generator
  frames,           \* SSE frames the generator has yielded
  buffer,           \* the generator's local `buffer`
  lines_read,       \* upstream lines the stream has delivered
  stream_exc,       \* the exception that ended the stream, "" for none
  probe,            \* a direct call of one client method: input and result
  outcome,          \* how the latest client call of the handler came out
  handlers          \* the /chat handlers running side by side, by number

vars ==
  <<settings, request, pc, rewritten_query, retrieved_docs, trimmed_docs,
    messages, inflight, calls, response, gen_pc, frames, buffer, lines_read,
    stream_exc, probe, outcome, handlers>>

chat_locals == <<rewritten_query, retrieved_docs, trimmed_docs, messages>>
generator_vars == <<gen_pc, frames, buffer, lines_read, stream_exc>>

\* ---------------------------------------------------------------- inputs

Queries == {<<"q">>, <<"q", " ">>}

\* config.py: Settings, with retrieval.top_k in 1..50 (1..MaxTopK here).
SettingsSpace ==
  [rewriter_enabled : BOOLEAN, api_key : BOOLEAN, retrieval_url : BOOLEAN,
   top_k : 1..MaxTopK]

\* schemas.py: ChatRequest; top_k = 0 stands for None.
Requests == [query : Queries, top_k : 0..MaxTopK, stream : BOOLEAN]

RewriteAlphabet == {"a", " ", StartMarker, EndMarker}

\* Rewrite replies the /chat handler is run against.
ChatRewriteContents ==
  {<<StartMarker, "a", EndMarker>>, <<StartMarker, EndMarker>>,
   <<"t", StartMarker, " ", "a", EndMarker>>, <<"a">>, <<" ">>}

\* Generation replies the /chat handler is run against.
ChatAnswerContents == {<<"a">>, <<" ", "a">>, <<" ">>, <<>>}

\* Retrieval items: `text` is usable or blank; `id` is the upstream position.
ItemTexts == {<<"d">>, <<" ">>}
Item(i, t) == [id |-> i, text |-> t]
ItemLists ==
  UNION {{[i \in 1..n |-> Item(i, IF i = b THEN <<" ">> ELSE <<"d">>)] :
            b \in 0..(IF n = 0 THEN 0 ELSE 1)} : n \in 0..MaxDocs}

RetrievalReplies ==
  {[kind |-> "transport_error", status |-> 0, items |-> <<>>]}
  \cup {[kind |-> "status_error", status |-> s, items |-> <<>>] :
          s \in UpstreamStatuses}
  \cup {[kind |-> k, status |-> 200, items |-> l] :
          k \in {"array", "results"}, l \in ItemLists}
  \cup {[kind |-> "results_null", status |-> 200, items |-> <<>>]}

\* ------------------------------------------------------------ null values

NoText == <<>>
NoCall == [svc |-> "none", query |-> <<>>, k |-> 0, documents |-> <<>>]
NoResponse ==
  [status |-> 0, detail |-> "", answer |-> <<>>, documents |-> <<>>,
   streaming |-> FALSE]
NoMessages == [built |-> FALSE, query |-> <<>>, documents |-> <<>>,
               placeholder |-> FALSE]
NoProbe == [fn |-> "none", query |-> <<>>,
            reply |-> [kind |-> "none", status |-> 0, content |-> <<>>],
            result |-> Return(<<>>), called |-> FALSE]

\* The outcome of a client call: the reply of the upstream (its kind, status
\* and content: the text of a completion, the items of a retrieval), or
\* "no_credential" / "not_configured" when the client raised before sending
\* anything.
Outcome(svc, kind, status, content) ==
  [svc |-> svc, kind |-> kind, status |-> status, content |-> content]
NoOutcome == Outcome("none", "none", 0, <<>>)

HttpError(status, detail) ==
  [status |-> status, detail |-> detail, answer |-> <<>>, documents |-> <<>>,
   streaming |-> FALSE]

Init ==
  /\ settings \in SettingsSpace
  /\ request \in Requests
  /\ pc = "rewrite"
  /\ rewritten_query = request.query
  /\ retrieved_docs = <<>>
  /\ trimmed_docs = <<>>
  /\ messages = NoMessages
  /\ inflight = NoCall
  /\ calls = [rewrite |-> 0, retrieve |-> 0, generate |-> 0]
  /\ response = NoResponse
  /\ gen_pc = "idle"
  /\ frames = <<>>
  /\ buffer = <<>>
  /\ lines_read = 0
  /\ stream_exc = ""
  /\ probe = NoProbe
  /\ outcome = NoOutcome
  /\ handlers = <<>>

Issue(svc) == calls' = [calls EXCEPT ![svc] = @ + 1]

\* --------------------------------------------------- chat: rewrite stage

\* main.py:74-78: what chat makes of rewrite_query's outcome.  A RuntimeError
\* or httpx.HTTPError falls back to the original query; any other exception
\* leaves the handler (the server answers 500).
AfterRewriteRetrying(result) ==
  IF result.kind = "return"
  THEN /\ rewritten_query' = result.value
       /\ pc' = "retrieve"
       /\ response' = response
  ELSE IF IsInstance(result.exc, "RuntimeError")
          \/ IsInstance(result.exc, "HTTPError")
  THEN /\ rewritten_query' = request.query
       /\ pc' = "rewrite"
       /\ response' = response
  ELSE /\ rewritten_query' = rewritten_query
       /\ pc' = "done"
       /\ response' = HttpError(500, "Internal Server Error")

AfterRewrite(result) ==
  IF result.kind = "return"
  THEN /\ rewritten_query' = result.value
       /\ pc' = "retrieve"
       /\ response' = response
  ELSE IF IsInstance(result.exc, "RuntimeError")
          \/ IsInstance(result.exc, "HTTPError")
  THEN /\ rewritten_query' = request.query
       /\ pc' = "retrieve"
       /\ response' = response
  ELSE /\ rewritten_query' = rewritten_query
       /\ pc' = "done"
       /\ response' = HttpError(500, "Internal Server Error")

\* main.py:72-73 with rewriting disabled: the stage is skipped.
ChatRewriteSkip ==
  /\ pc = "rewrite"
  /\ ~settings.rewriter_enabled
  /\ rewritten_query' = request.query
  /\ pc' = "retrieve"
  /\ UNCHANGED <<handlers, settings, request,
                 retrieved_docs, trimmed_docs, messages,
                 inflight, calls, response, generator_vars, probe, outcome>>

\* main.py:73-75 with rewriting enabled: rewrite_query runs up to its POST
\* (client.py:52-71), or ends before it.
ChatRewriteCall ==
  /\ pc = "rewrite"
  /\ settings.rewriter_enabled
  /\ IF RewriteSends(settings)
     THEN /\ inflight' = [NoCall EXCEPT !.svc = "rewrite",
                                        !.query = Strip(request.query)]
          /\ Issue("rewrite")
          /\ pc' = "rewrite_wait"
          /\ UNCHANGED <<rewritten_query, response, outcome>>
     ELSE /\ AfterRewrite(RewriteWithoutCall(settings, request.query))
          /\ outcome' = Outcome("rewrite", "no_credential", 0, <<>>)
          /\ UNCHANGED <<inflight, calls>>
  /\ UNCHANGED <<handlers, settings, request,
                 retrieved_docs, trimmed_docs, messages,
                 generator_vars, probe>>

\* client.py:71-94 and main.py:75-78: the completion service answers.
ChatRewriteReply ==
  /\ pc = "rewrite_wait"
  /\ inflight.svc = "rewrite"
  /\ \E reply \in CompletionReplies(ChatRewriteContents) :
       /\ AfterRewrite(RewriteResponse(request.query, reply))
       /\ outcome' = Outcome("rewrite", reply.kind, reply.status, reply.content)
  /\ inflight' = NoCall
  /\ UNCHANGED <<handlers, settings, request,
                 retrieved_docs, trimmed_docs, messages,
                 calls, generator_vars, probe>>

\* ------------------------------------------------- chat: retrieval stage

\* Python's `x or y` on Optional[int].
OrElse(x, y) == IF x = 0 THEN y ELSE x

\* client.py:157
effective_top_k(cfg, top_k) == OrElse(top_k, cfg.top_k)

\* client.py:198-202: the items of a decoded reply, a bare array or an object
\* whose `results` is the array (or is missing or null).
docs_payload(reply) ==
  IF reply.kind = "array" THEN reply.items
  ELSE IF reply.kind = "results" THEN reply.items
  ELSE <<>>

\* client.py:204-225: the items of a reply made documents; an item whose
\* content is empty after trimming is skipped.
NormalizeKeepingBlank(items) ==
  [i \in 1..Len(items) |->
     [id |-> items[i].id, content |-> Strip(items[i].text)]]

RECURSIVE Normalize(_)
Normalize(items) ==
  IF items = <<>> THEN <<>>
  ELSE IF Strip(Head(items).text) = <<>> THEN Normalize(Tail(items))
  ELSE <<[id |-> Head(items).id, content |-> Strip(Head(items).text)]>>
       \o Normalize(Tail(items))

\* main.py:40-45: documents[:max_docs], max_docs = limit or the configured top_k.
trim_documents(cfg, documents, limit) ==
  SubSeq(documents, 1, Min({Len(documents), OrElse(limit, cfg.top_k)}))

\* prompt.py:81-94: the query stripped, the documents in the order given, the
\* placeholder in place of an empty context.
build_messages_without_placeholder(query, documents) ==
  [built |-> TRUE, query |-> Strip(query), documents |-> documents,
   placeholder |-> FALSE]

build_messages(query, documents) ==
  [built |-> TRUE, query |-> Strip(query), documents |-> documents,
   placeholder |-> (documents = <<>>)]

\* main.py:85: the query chat hands to retrieve.
RetrievalQueryOriginal == request.query

RetrievalQuery == rewritten_query

\* main.py:91-100: the HTTP error chat raises for a failure of retrieve:
\* RuntimeError (no endpoint configured), HTTPStatusError, other HTTPError.
RetrieveFailureAlways502(kind, status) ==
  IF kind = "not_configured"
  THEN HttpError(500, "RAG_API_URL is not configured")
  ELSE HttpError(502, "Retriever request failed")

RetrieveFailure(kind, status) ==
  IF kind = "not_configured"
  THEN HttpError(500, "RAG_API_URL is not configured")
  ELSE IF kind = "status_error"
  THEN HttpError(status, "Retriever error")
  ELSE HttpError(502, "Retriever request failed")

\* main.py:83-90 and client.py:155-188: retrieve runs up to its POST, or
\* raises RuntimeError when no endpoint is configured (main.py:91-92).
ChatRetrieveCallEarly ==
  /\ pc \in {"rewrite_wait", "retrieve"}
  /\ IF settings.retrieval_url
     THEN /\ inflight' = [NoCall EXCEPT
                            !.svc = "retrieve",
                            !.query = RetrievalQuery,
                            !.k = effective_top_k(settings, request.top_k)]
          /\ Issue("retrieve")
          /\ pc' = "retrieve_wait"
          /\ UNCHANGED <<response, outcome>>
     ELSE /\ response' = RetrieveFailure("not_configured", 0)
          /\ outcome' = Outcome("retrieve", "not_configured", 0, <<>>)
          /\ pc' = "done"
          /\ UNCHANGED <<inflight, calls>>
  /\ UNCHANGED <<handlers, settings, request,
                 chat_locals, generator_vars, probe>>

ChatRetrieveCall ==
  /\ pc = "retrieve"
  /\ IF settings.retrieval_url
     THEN /\ inflight' = [NoCall EXCEPT
                            !.svc = "retrieve",
                            !.query = RetrievalQuery,
                            !.k = effective_top_k(settings, request.top_k)]
          /\ Issue("retrieve")
          /\ pc' = "retrieve_wait"
          /\ UNCHANGED <<response, outcome>>
     ELSE /\ response' = RetrieveFailure("not_configured", 0)
          /\ outcome' = Outcome("retrieve", "not_configured", 0, <<>>)
          /\ pc' = "done"
          /\ UNCHANGED <<inflight, calls>>
  /\ UNCHANGED <<handlers, settings, request,
                 chat_locals, generator_vars, probe>>

\* main.py:102: chat trims with no limit argument.
ChatTrim(documents) == trim_documents(settings, documents, 0)

\* client.py:188-225 and main.py:91-104: the retrieval service answers; on
\* success the documents are trimmed and the prompt is built.
ChatRetrieveReply ==
  /\ pc = "retrieve_wait"
  /\ inflight.svc = "retrieve"
  /\ \E reply \in RetrievalReplies :
       /\ outcome' = Outcome("retrieve", reply.kind, reply.status, reply.items)
       /\ IF reply.kind \in {"transport_error", "status_error"}
          THEN /\ response' = RetrieveFailure(reply.kind, reply.status)
               /\ pc' = "done"
               /\ UNCHANGED <<retrieved_docs, trimmed_docs, messages>>
          ELSE /\ retrieved_docs' = Normalize(docs_payload(reply))
               /\ trimmed_docs' = ChatTrim(retrieved_docs')
               /\ messages' = build_messages(request.query, trimmed_docs')
               /\ pc' = "generate"
               /\ response' = response
  /\ inflight' = NoCall
  /\ UNCHANGED <<handlers, settings, request,
                 rewritten_query, calls, generator_vars,
                 probe>>

\* ------------------------------------------------ chat: generation stage

\* main.py:106-111: a streaming request is answered with the generator; the
\* handler returns and only `messages` and `documents` live on in it.
ChatStream ==
  /\ pc = "generate"
  /\ request.stream
  /\ response' = [NoResponse EXCEPT !.status = 200, !.streaming = TRUE]
  /\ pc' = "done"
  /\ gen_pc' = "meta"
  /\ rewritten_query' = NoText
  /\ retrieved_docs' = <<>>
  /\ outcome' = NoOutcome
  /\ UNCHANGED <<handlers, settings, request,
                 trimmed_docs, messages, inflight, calls,
                 frames, buffer, lines_read, stream_exc, probe>>

\* main.py:113-117 and client.py:24-42: client.chat runs up to its POST, or
\* raises RuntimeError when the credential is missing.
ChatGenerateCall ==
  /\ pc = "generate"
  /\ ~request.stream
  /\ IF require_api_key(settings)
     THEN /\ inflight' = [NoCall EXCEPT !.svc = "chat",
                                        !.query = messages.query,
                                        !.documents = messages.documents]
          /\ Issue("generate")
          /\ pc' = "generate_wait"
          /\ UNCHANGED <<response, outcome>>
     ELSE /\ response' = HttpError(500, "SILICONFLOW_API_KEY is not set")
          /\ outcome' = Outcome("chat", "no_credential", 0, <<>>)
          /\ pc' = "done"
          /\ UNCHANGED <<inflight, calls>>
  /\ UNCHANGED <<handlers, settings, request,
                 chat_locals, generator_vars, probe>>

\* main.py:137-147: the answer of a decoded reply, or the HTTP error raised.
extract_answer_defaulting(reply) ==
  IF reply.kind \in {"choices_missing", "choices_null", "choices_empty"}
  THEN HttpError(502, "SiliconFlow returned no choices")
  ELSE IF reply.kind \in {"choice_not_object", "content_not_string"}
  THEN HttpError(500, "Internal Server Error")
  ELSE [NoResponse EXCEPT !.status = 200, !.answer = Strip(reply.content)]

extract_answer(reply) ==
  IF reply.kind \in {"choices_missing", "choices_null", "choices_empty"}
  THEN HttpError(502, "SiliconFlow returned no choices")
  ELSE IF reply.kind \in {"choice_not_object", "content_not_string"}
  THEN HttpError(500, "Internal Server Error")
  ELSE IF Strip(reply.content) = <<>>
  THEN HttpError(502, "Choice contained no message content")
  ELSE [NoResponse EXCEPT !.status = 200, !.answer = Strip(reply.content)]

\* main.py:115-134: what chat answers once client.chat came back.
ChatResult(reply, documents) ==
  IF reply.kind = "transport_error"
  THEN HttpError(502, "Upstream SiliconFlow request failed")
  ELSE IF reply.kind = "status_error"
  THEN HttpError(reply.status, "upstream detail")
  ELSE IF reply.kind \in {"undecodable", "not_object"}
  THEN HttpError(500, "Internal Server Error")
  ELSE IF extract_answer(reply).status # 200 THEN extract_answer(reply)
  ELSE [extract_answer(reply) EXCEPT !.documents = documents]

ChatGenerateReply ==
  /\ pc = "generate_wait"
  /\ inflight.svc = "chat"
  /\ \E reply \in CompletionReplies(ChatAnswerContents) :
       /\ response' = ChatResult(reply, trimmed_docs)
       /\ outcome' = Outcome("chat", reply.kind, reply.status, reply.content)
  /\ pc' = "done"
  /\ inflight' = NoCall
  /\ UNCHANGED <<handlers, settings, request,
                 chat_locals, calls, generator_vars, probe>>

\* ------------------------------------------------------ the SSE generator

\* main.py:162-164 at its four call sites: one frame, its event name and
\* its payload (the text of a delta, the answer of an end, the message of an
\* error, the documents of a meta).
Frame(event, text, message, documents) ==
  [event |-> event, text |-> text, message |-> message,
   documents |-> documents]

MetaFrameWithoutDocuments(documents) == Frame("meta", <<>>, "", <<>>)
MetaFrame(documents) == Frame("meta", <<>>, "", documents)
\* A chunk that is a str is the payload as it is; any other is json.dumps of it.
DeltaFrameStripped(chunk) == Frame("delta", Strip(chunk.text), "", <<>>)
DeltaFrame(chunk) == Frame("delta", chunk.text, "", <<>>)
EndFrame(answer) == Frame("end", answer, "", <<>>)
ErrorFrame(message) == Frame("error", <<>>, message, <<>>)

\* What stream_chat can yield: the `content` of a delta, a str or (the
\* upstream being free to send any JSON) a truthy value of another type.
StrChunk(t) == [type |-> "str", text |-> t]
Chunks == {StrChunk(<<"a">>), StrChunk(<<" ">>), [type |-> "num", text |-> <<"5">>]}
NoChunk == [type |-> "none", text |-> <<>>]

\* One upstream line of the completion stream, by the case of client.py:120-138
\* it falls in.
SkippedLines ==
  {"blank", "non_data", "data_empty", "malformed", "no_choices",
   "delta_missing", "content_empty"}
BrokenLines == {"json_not_object", "choice_not_object", "delta_not_object"}
StreamLines ==
  {[kind |-> k, chunk |-> NoChunk] : k \in SkippedLines \cup BrokenLines}
  \cup {[kind |-> "content", chunk |-> c] : c \in Chunks}

\* client.py:121-138 for one line: skipped, yielded, or an exception raised
\* by a .get on a value that is no object.
DecodeLine(line) ==
  IF line.kind \in SkippedLines THEN [act |-> "skip", chunk |-> NoChunk]
  ELSE IF line.kind \in BrokenLines THEN [act |-> "raise", chunk |-> NoChunk]
  ELSE [act |-> "yield", chunk |-> line.chunk]

\* client.py:113-119: raise_for_status() is called on a response opened with
\* client.stream(), whose body has not been read; httpx raises ResponseNotRead
\* when .text of such a response is asked for.
StreamedBodyRead == FALSE

\* main.py:185-199: the frame the generator yields for an exception of
\* stream_chat, or no frame when the exception (or one raised while handling
\* it, main.py:189) leaves the generator.
NoFrame == Frame("none", <<>>, "", <<>>)
OnStreamException(exc) ==
  IF IsInstance(exc, "RuntimeError")
  THEN ErrorFrame("SILICONFLOW_API_KEY is not set")
  ELSE IF IsInstance(exc, "HTTPStatusError")
  THEN (IF StreamedBodyRead THEN ErrorFrame("Upstream error") ELSE NoFrame)
  ELSE IF IsInstance(exc, "HTTPError")
  THEN ErrorFrame("Upstream SiliconFlow request failed")
  ELSE NoFrame

\* The generator ends on an exception: with its error frame, or aborted.
StreamFail(exc) ==
  /\ stream_exc' = exc
  /\ IF OnStreamException(exc) = NoFrame
     THEN /\ gen_pc' = "aborted"
          /\ frames' = frames
     ELSE /\ gen_pc' = "closed"
          /\ frames' = Append(frames, OnStreamException(exc))

\* main.py:201: "".join(buffer).strip()
AnswerLStripOnly(chunks) ==
  LStrip(Join([i \in 1..Len(chunks) |-> chunks[i].text]))

Answer(chunks) == Strip(Join([i \in 1..Len(chunks) |-> chunks[i].text]))

\* main.py:201-202: the loop is over; join raises TypeError on a chunk that
\* is no str, outside the try.
StreamFinish ==
  IF \A i \in 1..Len(buffer) : buffer[i].type = "str"
  THEN /\ gen_pc' = "closed"
       /\ frames' = Append(frames, EndFrame(Answer(buffer)))
       /\ stream_exc' = stream_exc
  ELSE /\ gen_pc' = "aborted"
       /\ frames' = frames
       /\ stream_exc' = "TypeError"

\* main.py:172-178
StreamMeta ==
  /\ gen_pc = "meta"
  /\ frames' = Append(frames, MetaFrame(trimmed_docs))
  /\ gen_pc' = "open"
  /\ UNCHANGED <<handlers, settings, request,
                 pc, chat_locals, inflight, calls, response,
                 buffer, lines_read, stream_exc, probe, outcome>>

\* main.py:180-182 and client.py:100-118: stream_chat runs up to its POST, or
\* raises RuntimeError when the credential is missing.
StreamOpenBeforeMeta ==
  /\ gen_pc \in {"meta", "open"}
  /\ IF require_api_key(settings)
     THEN /\ inflight' = [NoCall EXCEPT !.svc = "stream",
                                        !.query = messages.query,
                                        !.documents = messages.documents]
          /\ Issue("generate")
          /\ gen_pc' = "connect"
          /\ UNCHANGED <<frames, stream_exc>>
     ELSE /\ StreamFail("RuntimeError")
          /\ UNCHANGED <<inflight, calls>>
  /\ UNCHANGED <<handlers, settings, request, pc, chat_locals, response, buffer,
                 lines_read, probe, outcome>>

StreamOpen ==
  /\ gen_pc = "open"
  /\ IF require_api_key(settings)
     THEN /\ inflight' = [NoCall EXCEPT !.svc = "stream",
                                        !.query = messages.query,
                                        !.documents = messages.documents]
          /\ Issue("generate")
          /\ gen_pc' = "connect"
          /\ UNCHANGED <<frames, stream_exc>>
     ELSE /\ StreamFail("RuntimeError")
          /\ UNCHANGED <<inflight, calls>>
  /\ UNCHANGED <<handlers, settings, request, pc, chat_locals, response, buffer,
                 lines_read, probe, outcome>>

\* client.py:113-119: the connection fails, or the status line arrives.
StreamConnect ==
  /\ gen_pc = "connect"
  /\ \E conn \in {"transport_error", "status_error", "ok"} :
       IF conn = "transport_error"
       THEN StreamFail("TransportError") /\ inflight' = NoCall
       ELSE IF conn = "status_error"
       THEN StreamFail("HTTPStatusError") /\ inflight' = NoCall
       ELSE gen_pc' = "lines" /\ UNCHANGED <<frames, stream_exc, inflight>>
  /\ UNCHANGED <<handlers, settings, request,
                 pc, chat_locals, calls, response, buffer,
                 lines_read, probe, outcome>>

\* client.py:120-138 and main.py:182-184: one more upstream line is read.
StreamLine ==
  /\ gen_pc = "lines"
  /\ lines_read < MaxLines
  /\ lines_read' = lines_read + 1
  /\ \E line \in StreamLines :
       IF DecodeLine(line).act = "skip"
       THEN UNCHANGED <<gen_pc, frames, buffer, inflight, stream_exc>>
       ELSE IF DecodeLine(line).act = "raise"
       THEN /\ StreamFail("AttributeError")
            /\ inflight' = NoCall
            /\ buffer' = buffer
       ELSE /\ buffer' = Append(buffer, DecodeLine(line).chunk)
            /\ frames' = Append(frames, DeltaFrame(DecodeLine(line).chunk))
            /\ UNCHANGED <<gen_pc, inflight, stream_exc>>
  /\ UNCHANGED <<handlers, settings, request,
                 pc, chat_locals, calls, response, probe,
                 outcome>>

\* client.py:126-128 and the end of aiter_lines: the sentinel line arrives or
\* the connection closes; main.py:201-202 follows.
StreamDone ==
  /\ gen_pc = "lines"
  /\ StreamFinish
  /\ inflight' = NoCall
  /\ UNCHANGED <<handlers, settings, request,
                 pc, chat_locals, calls, response, buffer,
                 lines_read, probe, outcome>>

\* The connection breaks while a line is awaited (an httpx transport error).
StreamBreak ==
  /\ gen_pc = "lines"
  /\ StreamFail("TransportError")
  /\ inflight' = NoCall
  /\ UNCHANGED <<handlers, settings, request,
                 pc, chat_locals, calls, response, buffer,
                 lines_read, probe, outcome>>

\* ----------------------------------------------------------- the service

Next ==
  \/ ChatRewriteSkip
  \/ ChatRewriteCall
  \/ ChatRewriteReply
  \/ ChatRetrieveCall
  \/ ChatRetrieveReply
  \/ ChatStream
  \/ ChatGenerateCall
  \/ ChatGenerateReply
  \/ StreamMeta
  \/ StreamOpen
  \/ StreamConnect
  \/ StreamLine
  \/ StreamDone
  \/ StreamBreak

Spec == Init /\ [][Next]_vars

\* ------------------------------------------- rewrite_query called directly

\* The replies rewrite_query is applied to: every shape, and every content of
\* at most MaxContentLen tokens.
RewriteReplies == CompletionReplies(Texts(RewriteAlphabet, MaxContentLen))

InitRewrite ==
  /\ settings \in SettingsSpace
  /\ request \in {r \in Requests : r.top_k = 0 /\ ~r.stream}
  /\ pc = "idle"
  /\ rewritten_query = NoText
  /\ retrieved_docs = <<>>
  /\ trimmed_docs = <<>>
  /\ messages = NoMessages
  /\ inflight = NoCall
  /\ calls = [rewrite |-> 0, retrieve |-> 0, generate |-> 0]
  /\ response = NoResponse
  /\ gen_pc = "idle"
  /\ frames = <<>>
  /\ buffer = <<>>
  /\ lines_read = 0
  /\ stream_exc = ""
  /\ probe = NoProbe
  /\ outcome = NoOutcome
  /\ handlers = <<>>

\* client.py:50-94: rewrite_query(request.query) run from its first line to
\* its return, against one reply of the completion service.
CallRewriteQuery ==
  /\ probe.fn = "none"
  /\ \E reply \in RewriteReplies :
       probe' = [fn |-> "rewrite_query",
                 query |-> request.query,
                 reply |-> reply,
                 result |-> rewrite_query(settings, request.query, reply),
                 called |-> RewriteSends(settings)]
  /\ calls' = [calls EXCEPT !.rewrite = IF RewriteSends(settings) THEN 1 ELSE 0]
  /\ UNCHANGED <<handlers, settings, request,
                 pc, chat_locals, inflight, response,
                 generator_vars, outcome>>

NextRewrite == CallRewriteQuery

SpecRewrite == InitRewrite /\ [][NextRewrite]_vars

\* ----------------------------------------------- retrieve called directly

\* Optional[bool]: None, True or False.
OptionalBools == {"None", "True", "False"}

\* A rerank mode is a str; "" stands for None as well, `x or y` and the test of
\* client.py:165 treating both alike.
NoMode == ""
Modes == {"cross", "bi", "CROSS"}

\* str.lower() on the modes.
Lower(mode) == IF mode = "CROSS" THEN "cross" ELSE mode

\* The retrieval settings retrieve reads: RetrievalConfig, with rerank_top_k
\* and rerank_mode possibly None (0 and ""); integers that are set are >= 1.
RetrievalSettingsSpace ==
  [retrieval_url : BOOLEAN, top_k : 1..MaxTopK, use_rerank : BOOLEAN,
   rerank_mode : {NoMode, "cross", "bi"}, rerank_top_k : 0..MaxTopK]

\* The arguments of one call of retrieve; an Optional[int] that is None is 0.
RetrieveArgs ==
  [query : {<<"q">>}, top_k : 0..MaxTopK, use_rerank : OptionalBools,
   rerank_mode : {NoMode} \cup Modes, rerank_top_k : 0..MaxTopK]

\* client.py:158-160
effective_use_rerank_or(cfg, use_rerank) ==
  use_rerank = "True" \/ cfg.use_rerank

effective_use_rerank(cfg, use_rerank) ==
  IF use_rerank = "None" THEN cfg.use_rerank ELSE use_rerank = "True"

\* client.py:161-167
effective_rerank_mode(cfg, rerank_mode) ==
  IF rerank_mode # NoMode THEN Lower(rerank_mode)
  ELSE IF cfg.rerank_mode # NoMode THEN Lower(cfg.rerank_mode)
  ELSE NoMode

\* client.py:168-172
effective_rerank_top_k_no_default(cfg, top_k, rerank_top_k) ==
  OrElse(rerank_top_k, effective_top_k(cfg, top_k))

effective_rerank_top_k(cfg, top_k, rerank_top_k) ==
  OrElse(rerank_top_k, OrElse(cfg.rerank_top_k, effective_top_k(cfg, top_k)))

\* client.py:173-180: the JSON body of the POST.  `has_rerank_top_k` tells
\* whether the key rerank_top_k is in it; rerank_mode "" is null.
RetrievePayload(cfg, args) ==
  [query |-> args.query,
   k |-> effective_top_k(cfg, args.top_k),
   use_rerank |-> effective_use_rerank(cfg, args.use_rerank),
   rerank_mode |-> effective_rerank_mode(cfg, args.rerank_mode),
   has_rerank_top_k |->
     /\ effective_use_rerank(cfg, args.use_rerank)
     /\ effective_rerank_top_k(cfg, args.top_k, args.rerank_top_k) # 0,
   rerank_top_k |->
     IF /\ effective_use_rerank(cfg, args.use_rerank)
        /\ effective_rerank_top_k(cfg, args.top_k, args.rerank_top_k) # 0
     THEN effective_rerank_top_k(cfg, args.top_k, args.rerank_top_k)
     ELSE 0]

NoPayload ==
  [query |-> <<>>, k |-> 0, use_rerank |-> FALSE, rerank_mode |-> NoMode,
   has_rerank_top_k |-> FALSE, rerank_top_k |-> 0]

NoRetrieveProbe == [fn |-> "none", sent |-> FALSE, payload |-> NoPayload]

InitRetrieve ==
  /\ settings \in RetrievalSettingsSpace
  /\ request \in RetrieveArgs
  /\ pc = "idle"
  /\ rewritten_query = NoText
  /\ retrieved_docs = <<>>
  /\ trimmed_docs = <<>>
  /\ messages = NoMessages
  /\ inflight = NoCall
  /\ calls = [rewrite |-> 0, retrieve |-> 0, generate |-> 0]
  /\ response = NoResponse
  /\ gen_pc = "idle"
  /\ frames = <<>>
  /\ buffer = <<>>
  /\ lines_read = 0
  /\ stream_exc = ""
  /\ probe = NoRetrieveProbe
  /\ outcome = NoOutcome
  /\ handlers = <<>>

\* client.py:147-188: retrieve(**request) run up to its POST, or to the
\* RuntimeError of line 156 when no endpoint is configured.
CallRetrieve ==
  /\ probe.fn = "none"
  /\ probe' = [fn |-> "retrieve",
               sent |-> settings.retrieval_url,
               payload |-> IF settings.retrieval_url
                           THEN RetrievePayload(settings, request)
                           ELSE NoPayload]
  /\ calls' = [calls EXCEPT
                 !.retrieve = IF settings.retrieval_url THEN 1 ELSE 0]
  /\ UNCHANGED <<handlers, settings, request,
                 pc, chat_locals, inflight, response,
                 generator_vars, outcome>>

NextRetrieve == CallRetrieve

SpecRetrieve == InitRetrieve /\ [][NextRetrieve]_vars

\* ------------------------------------------------- the normalizer by item

\* JSON values of the score fields of an item: null (or the key absent, which
\* item.get makes the same), 0, 0.5 and 0.8.  A float is written as Python
\* prints it; NoFloat is None.
NoFloat == "None"
ScoreValues == {"None", "0", "0.5", "0.8"}

\* client.py:234-240: float(value), None for None.
maybe_float(value) ==
  IF value = "None" THEN NoFloat
  ELSE IF value = "0" THEN "0.0"
  ELSE value

\* Python's `x or y` on Optional[float]: None and 0.0 are falsy.
FloatOrElse(x, y) == IF x \in {NoFloat, "0.0"} THEN y ELSE x

\* client.py:228-231 on a str or None (<<>> stands for None).
maybe_str(value) == value

\* The items the normalizer is applied to: `name` and `text` absent (<<>>) or
\* a str, each score field any of ScoreValues.
NormalizeItems ==
  [name : {<<>>, <<"X">>},
   text : {<<>>, <<"Y">>, <<" ", "Y", " ">>, <<" ">>},
   combined_score : ScoreValues,
   rerank_score : ScoreValues,
   score : ScoreValues]

\* client.py:206: (item.get("text") or item.get("name") or "").strip()
item_content(item) ==
  Strip(IF item.text # <<>> THEN item.text ELSE item.name)

\* client.py:215-217
item_score(item) ==
  FloatOrElse(maybe_float(item.combined_score),
              FloatOrElse(maybe_float(item.rerank_score),
                          maybe_float(item.score)))

NoDocument == [title |-> <<>>, content |-> <<>>, score |-> NoFloat]

\* client.py:205-223 for one item: skipped when its content is empty, else
\* the document appended.
NormalizeItem(item) ==
  IF item_content(item) = <<>>
  THEN [kept |-> FALSE, document |-> NoDocument]
  ELSE [kept |-> TRUE,
        document |-> [title |-> maybe_str(item.name),
                      content |-> item_content(item),
                      score |-> item_score(item)]]

NoItem ==
  [name |-> <<>>, text |-> <<>>, combined_score |-> "None",
   rerank_score |-> "None", score |-> "None"]

NoNormalizeProbe ==
  [fn |-> "none", item |-> NoItem, kept |-> FALSE, document |-> NoDocument]

InitNormalize ==
  /\ settings \in {c \in SettingsSpace : c.retrieval_url}
  /\ request \in {r \in Requests : r.top_k = 0 /\ ~r.stream}
  /\ pc = "idle"
  /\ rewritten_query = NoText
  /\ retrieved_docs = <<>>
  /\ trimmed_docs = <<>>
  /\ messages = NoMessages
  /\ inflight = NoCall
  /\ calls = [rewrite |-> 0, retrieve |-> 0, generate |-> 0]
  /\ response = NoResponse
  /\ gen_pc = "idle"
  /\ frames = <<>>
  /\ buffer = <<>>
  /\ lines_read = 0
  /\ stream_exc = ""
  /\ probe = NoNormalizeProbe
  /\ outcome = NoOutcome
  /\ handlers = <<>>

\* client.py:204-225 run on a reply of one item.
CallNormalize ==
  /\ probe.fn = "none"
  /\ \E item \in NormalizeItems :
       probe' = [fn |-> "normalize",
                 item |-> item,
                 kept |-> NormalizeItem(item).kept,
                 document |-> NormalizeItem(item).document]
  /\ calls' = [calls EXCEPT !.retrieve = 1]
  /\ UNCHANGED <<handlers, settings, request,
                 pc, chat_locals, inflight, response,
                 generator_vars, outcome>>

NextNormalize == CallNormalize

SpecNormalize == InitNormalize /\ [][NextNormalize]_vars

\* ---------------------------------------- stream_chat over a whole stream

\* The line `data: [DONE]` (client.py:126-128).
DoneLine == [kind |-> "done", chunk |-> NoChunk]

RECURSIVE SeqsOver(_, _)
SeqsOver(S, n) ==
  IF n = 0 THEN {<<>>}
  ELSE SeqsOver(S, n - 1)
       \cup {Append(q, x) : q \in {r \in SeqsOver(S, n - 1) : Len(r) = n - 1},
                            x \in S}

\* The upstream streams stream_chat is run over: at most MaxLines lines, the
\* connection closing after the last one.
UpstreamStreams == SeqsOver(StreamLines \cup {DoneLine}, MaxLines)

\* client.py:120-138 over the lines left, `yielded` being what was yielded so
\* far: the loop ends at the sentinel or with the lines, and an exception of
\* the loop body ends the generator.
RECURSIVE StreamChatFrom(_, _)
StreamChatFrom(lines, yielded) ==
  IF lines = <<>> THEN [yielded |-> yielded, exc |-> ""]
  ELSE IF Head(lines) = DoneLine THEN [yielded |-> yielded, exc |-> ""]
  ELSE IF DecodeLine(Head(lines)).act = "skip"
  THEN StreamChatFrom(Tail(lines), yielded)
  ELSE IF DecodeLine(Head(lines)).act = "raise"
  THEN [yielded |-> yielded, exc |-> "AttributeError"]
  ELSE StreamChatFrom(Tail(lines),
                      Append(yielded, DecodeLine(Head(lines)).chunk))

\* SiliconFlowClient.stream_chat on a 2xx stream of these lines.
stream_chat(lines) == StreamChatFrom(lines, <<>>)

NoStreamProbe == [fn |-> "none", lines |-> <<>>, yielded |-> <<>>, exc |-> ""]

InitStream ==
  /\ settings \in {c \in SettingsSpace : c.api_key /\ c.retrieval_url}
  /\ request \in {r \in Requests : r.top_k = 0 /\ r.stream}
  /\ pc = "idle"
  /\ rewritten_query = NoText
  /\ retrieved_docs = <<>>
  /\ trimmed_docs = <<>>
  /\ messages = NoMessages
  /\ inflight = NoCall
  /\ calls = [rewrite |-> 0, retrieve |-> 0, generate |-> 0]
  /\ response = NoResponse
  /\ gen_pc = "idle"
  /\ frames = <<>>
  /\ buffer = <<>>
  /\ lines_read = 0
  /\ stream_exc = ""
  /\ probe = NoStreamProbe
  /\ outcome = NoOutcome
  /\ handlers = <<>>

\* client.py:96-138: stream_chat consumed to its end over one upstream stream.
CallStreamChat ==
  /\ probe.fn = "none"
  /\ \E lines \in UpstreamStreams :
       probe' = [fn |-> "stream_chat",
                 lines |-> lines,
                 yielded |-> stream_chat(lines).yielded,
                 exc |-> stream_chat(lines).exc]
  /\ calls' = [calls EXCEPT !.generate = 1]
  /\ UNCHANGED <<handlers, settings, request,
                 pc, chat_locals, inflight, response,
                 generator_vars, outcome>>

NextStream == CallStreamChat

SpecStream == InitStream /\ [][NextStream]_vars

\* ------------------------------------------ the response body on the wire

\* json.dumps of a str: a newline is written as the two characters \n, kept
\* here as one token that is no newline.
JsonString(text) ==
  <<"\"">> \o [i \in 1..Len(text) |-> IF text[i] = "\n" THEN "\\n" ELSE text[i]]
           \o <<"\"">>

\* main.py:163: the payload of a frame, a str chunk as it is and anything
\* else as json.dumps writes it, on one line.
SsePayload(frame) ==
  IF frame.event = "delta" THEN frame.text
  ELSE IF frame.event = "end"
  THEN <<"{", "answer", ":">> \o JsonString(frame.text) \o <<"}">>
  ELSE IF frame.event = "error" THEN <<"{", "message", ":", "\"", "\"", "}">>
  ELSE <<"{", "model", ",", "documents", "}">>

\* main.py:164: f"event: {event}\ndata: {payload}\n\n"
sse(frame) ==
  <<"event: ", frame.event, "\n", "data: ">> \o SsePayload(frame)
    \o <<"\n", "\n">>

\* The fragments a completion stream is made of here: non-empty texts of
\* letters and newlines.
Fragments == Texts({"a", "\n"}, MaxFragmentLen) \ {<<>>}
FragmentStreams == SeqsOver(Fragments, MaxLines)

\* main.py:171-202 over a stream that yields `fragments` and ends: the frames
\* yielded, in order.
StreamedFrames(documents, fragments) ==
  <<MetaFrame(documents)>>
    \o [i \in 1..Len(fragments) |-> DeltaFrame(StrChunk(fragments[i]))]
    \o <<EndFrame(Answer([i \in 1..Len(fragments) |->
                            StrChunk(fragments[i])]))>>

\* The body of the response: the frames' bytes one after the other.
Body(frameseq) == Join([i \in 1..Len(frameseq) |-> sse(frameseq[i])])

\* ui.py:323-331: the body cut at every blank line, empty blocks dropped.
RECURSIVE SplitBlocks(_, _)
SplitBlocks(body, block) ==
  IF body = <<>>
  THEN (IF Strip(block) = <<>> THEN <<>> ELSE <<Strip(block)>>)
  ELSE IF Len(body) >= 2 /\ body[1] = "\n" /\ body[2] = "\n"
  THEN (IF Strip(block) = <<>> THEN <<>> ELSE <<Strip(block)>>)
         \o SplitBlocks(SubSeq(body, 3, Len(body)), <<>>)
  ELSE SplitBlocks(Tail(body), Append(block, Head(body)))

NoSseProbe ==
  [fn |-> "none", fragments |-> <<>>, body |-> <<>>, blocks |-> <<>>]

InitSse ==
  /\ settings \in {c \in SettingsSpace :
                     c.api_key /\ c.retrieval_url /\ ~c.rewriter_enabled
                       /\ c.top_k = 1}
  /\ request \in {r \in Requests :
                    r.top_k = 0 /\ r.stream /\ r.query = <<"q">>}
  /\ pc = "done"
  /\ rewritten_query = NoText
  /\ retrieved_docs = <<>>
  /\ trimmed_docs = <<>>
  /\ messages = build_messages(request.query, <<>>)
  /\ inflight = NoCall
  /\ calls = [rewrite |-> 0, retrieve |-> 1, generate |-> 0]
  /\ response = [NoResponse EXCEPT !.status = 200, !.streaming = TRUE]
  /\ gen_pc = "meta"
  /\ frames = <<>>
  /\ buffer = <<>>
  /\ lines_read = 0
  /\ stream_exc = ""
  /\ probe = NoSseProbe
  /\ outcome = NoOutcome
  /\ handlers = <<>>

\* main.py:171-202: the generator run to its end over one stream of
\* fragments, and its body as the page's reader cuts it.
CallStreamingResponse ==
  /\ probe.fn = "none"
  /\ \E fragments \in FragmentStreams :
       /\ frames' = StreamedFrames(trimmed_docs, fragments)
       /\ buffer' = [i \in 1..Len(fragments) |-> StrChunk(fragments[i])]
       /\ probe' = [fn |-> "streaming_response",
                    fragments |-> fragments,
                    body |-> Body(frames'),
                    blocks |-> SplitBlocks(Body(frames'), <<>>)]
  /\ gen_pc' = "closed"
  /\ calls' = [calls EXCEPT !.generate = 1]
  /\ UNCHANGED <<handlers, settings, request,
                 pc, chat_locals, inflight, response,
                 lines_read, stream_exc, outcome>>

NextSse == CallStreamingResponse

SpecSse == InitSse /\ [][NextSse]_vars

\* ------------------------------------------------- two requests at once

\* The handlers that run side by side.
Handlers == {1, 2}

\* What the upstreams answer to the three calls of one request.
ConcurrentReplies ==
  [rewrite : {r \in CompletionReplies({<<StartMarker, "a", EndMarker>>}) :
                r.kind \in {"transport_error", "content"}},
   retrieve : {r \in RetrievalReplies :
                 \/ r.kind = "status_error" /\ r.status = 503
                 \/ r.kind = "array" /\ Len(r.items) \in {1, 2}
                                     /\ \A i \in 1..Len(r.items) :
                                          r.items[i].text = <<"d">>},
   generate : {r \in CompletionReplies({<<"a">>}) :
                 r.kind \in {"transport_error", "content"}}]

\* A handler when its request comes in (main.py:61-71): its request, the
\* replies the upstreams hold for it, and chat's locals.
NewHandler(req, replies) ==
  [request |-> req, replies |-> replies, pc |-> "rewrite",
   rewritten_query |-> req.query, sent_query |-> NoText,
   trimmed_docs |-> <<>>, messages |-> NoMessages, response |-> NoResponse,
   frames |-> <<>>, overlapped |-> FALSE]

\* The variables the code of handler i reads and writes: all of them are
\* locals of its own call of chat (main.py:72-134) or of its own generator.
LocalsSharingQuery(hs, i) ==
  IF DOMAIN hs = {i} THEN hs[i]
  ELSE [hs[i] EXCEPT !.rewritten_query =
          hs[CHOOSE j \in DOMAIN hs : j # i].rewritten_query]

Locals(hs, i) == hs[i]

\* main.py:72-78 for one handler.
RewriteStage(cfg, h) ==
  IF rewrite_query(cfg, h.request.query, h.replies.rewrite).kind = "return"
  THEN [h EXCEPT !.pc = "retrieve",
                 !.rewritten_query =
                   rewrite_query(cfg, h.request.query, h.replies.rewrite).value]
  ELSE IF \/ IsInstance(rewrite_query(cfg, h.request.query,
                                      h.replies.rewrite).exc, "RuntimeError")
          \/ IsInstance(rewrite_query(cfg, h.request.query,
                                      h.replies.rewrite).exc, "HTTPError")
  THEN [h EXCEPT !.pc = "retrieve", !.rewritten_query = h.request.query]
  ELSE [h EXCEPT !.pc = "done",
                 !.response = HttpError(500, "Internal Server Error")]

\* main.py:83-104 for one handler.
RetrieveStage(cfg, h) ==
  IF ~cfg.retrieval_url
  THEN [h EXCEPT !.pc = "done",
                 !.response = RetrieveFailure("not_configured", 0)]
  ELSE IF h.replies.retrieve.kind \in {"transport_error", "status_error"}
  THEN [h EXCEPT !.pc = "done",
                 !.sent_query = h.rewritten_query,
                 !.response = RetrieveFailure(h.replies.retrieve.kind,
                                              h.replies.retrieve.status)]
  ELSE [h EXCEPT
          !.pc = "generate",
          !.sent_query = h.rewritten_query,
          !.trimmed_docs =
            trim_documents(cfg, Normalize(docs_payload(h.replies.retrieve)),
                           0),
          !.messages =
            build_messages(h.request.query,
              trim_documents(cfg, Normalize(docs_payload(h.replies.retrieve)),
                             0))]

\* main.py:171-202 for one handler, the stream being one fragment or a
\* transport failure.
GeneratorFrames(cfg, h) ==
  IF ~require_api_key(cfg)
  THEN <<MetaFrame(h.trimmed_docs), OnStreamException("RuntimeError")>>
  ELSE IF h.replies.generate.kind = "content"
  THEN StreamedFrames(h.trimmed_docs, <<h.replies.generate.content>>)
  ELSE <<MetaFrame(h.trimmed_docs), OnStreamException("TransportError")>>

\* main.py:106-134 for one handler.
GenerateStage(cfg, h) ==
  IF h.request.stream
  THEN [h EXCEPT !.pc = "done",
                 !.response = [NoResponse EXCEPT !.status = 200,
                                                 !.streaming = TRUE],
                 !.frames = GeneratorFrames(cfg, h)]
  ELSE IF ~require_api_key(cfg)
  THEN [h EXCEPT !.pc = "done",
                 !.response = HttpError(500, "SILICONFLOW_API_KEY is not set")]
  ELSE [h EXCEPT !.pc = "done",
                 !.response = ChatResult(h.replies.generate, h.trimmed_docs)]

\* The next stage of handler i, run up to its next await or its return.
HandlerStep(cfg, hs, i) ==
  IF hs[i].pc = "rewrite" THEN RewriteStage(cfg, hs[i])
  ELSE IF hs[i].pc = "retrieve" THEN RetrieveStage(cfg, Locals(hs, i))
  ELSE GenerateStage(cfg, hs[i])

\* The handler of one request run alone from its start to its end.
RunAlone(cfg, req, replies) ==
  LET h0 == [n \in {1} |-> NewHandler(req, replies)]
      h1 == [n \in {1} |-> HandlerStep(cfg, h0, 1)]
      h2 == [n \in {1} |->
               IF h1[1].pc = "done" THEN h1[1] ELSE HandlerStep(cfg, h1, 1)]
  IN IF h2[1].pc = "done" THEN h2[1] ELSE HandlerStep(cfg, h2, 1)

InitConcurrent ==
  /\ settings \in {c \in SettingsSpace : c.api_key /\ c.retrieval_url}
  /\ request \in {r \in Requests : r.top_k = 0 /\ ~r.stream
                                     /\ r.query = <<"q">>}
  /\ pc = "idle"
  /\ rewritten_query = NoText
  /\ retrieved_docs = <<>>
  /\ trimmed_docs = <<>>
  /\ messages = NoMessages
  /\ inflight = NoCall
  /\ calls = [rewrite |-> 0, retrieve |-> 0, generate |-> 0]
  /\ response = NoResponse
  /\ gen_pc = "idle"
  /\ frames = <<>>
  /\ buffer = <<>>
  /\ lines_read = 0
  /\ stream_exc = ""
  /\ probe = NoProbe
  /\ outcome = NoOutcome
  /\ handlers \in
       [Handlers -> {NewHandler(req, replies) :
                       req \in {r \in Requests : r.top_k = 0},
                       replies \in ConcurrentReplies}]

\* Handler i runs its next stage while the other one stands at an await.
HandlerRuns(i) ==
  /\ handlers[i].pc # "done"
  /\ handlers' =
       [handlers EXCEPT
          ![i] = [HandlerStep(settings, handlers, i) EXCEPT
                    !.overlapped =
                      \/ handlers[i].overlapped
                      \/ \E j \in Handlers \ {i} :
                           handlers[j].pc \in {"retrieve", "generate"}]]
  /\ UNCHANGED <<settings, request, pc, chat_locals, inflight, calls,
                 response, generator_vars, probe, outcome>>

NextConcurrent == \E i \in Handlers : HandlerRuns(i)

SpecConcurrent == InitConcurrent /\ [][NextConcurrent]_vars

\* ================================================================ claims

StreamOver == gen_pc \in {"closed", "aborted"}
Terminal(f) == f.event \in {"end", "error"}
TerminalFrames == {i \in 1..Len(frames) : Terminal(frames[i])}
DeltaTexts == [i \in 1..(Len(frames) - 2) |-> frames[i + 1].text]

\* C1: once a streamed response is over, its frame sequence ends with a
\* terminal frame (`end` or `error`) and holds exactly one terminal frame.
C1_OneTerminalFrame ==
  StreamOver =>
    /\ Cardinality(TerminalFrames) = 1
    /\ Terminal(frames[Len(frames)])

\* C2: a streamed response whose completion call failed (missing credential,
\* non-2xx status, transport error) is over with the frames emitted before
\* the failure (meta, one delta per chunk) followed by one `error` frame that
\* carries a message, and with no `end` frame.
C2_FailureBecomesErrorFrame ==
  (StreamOver /\ stream_exc \in {"RuntimeError", "HTTPStatusError", "TransportError"}) =>
    /\ Len(frames) = Len(buffer) + 2
    /\ frames[1] = MetaFrame(trimmed_docs)
    /\ \A i \in 1..Len(buffer) : frames[i + 1] = DeltaFrame(buffer[i])
    /\ frames[Len(frames)].event = "error"
    /\ frames[Len(frames)].message # ""
    /\ \A i \in 1..Len(frames) : frames[i].event # "end"

\* C3: a streamed response that is over consists of one `meta` frame, then
\* only `delta` frames, then the terminal frame as its last frame.
C3_MetaDeltasTerminal ==
  StreamOver =>
    /\ Len(frames) >= 2
    /\ frames[1].event = "meta"
    /\ \A i \in 2..(Len(frames) - 1) : frames[i].event = "delta"
    /\ Terminal(frames[Len(frames)])

EndsWithEnd == StreamOver /\ frames # <<>> /\ frames[Len(frames)].event = "end"

RequestTopK == OrElse(request.top_k, settings.top_k)
PromptBuilt == pc \in {"generate", "generate_wait"}

\* C5: the documents handed to build_messages are the first min(N, K) of the
\* N retrieved documents, K being the effective top_k of the request.
C5_FirstMinNK ==
  PromptBuilt =>
    messages.documents =
      SubSeq(retrieved_docs, 1, Min({Len(retrieved_docs), RequestTopK}))

\* C6: the document list handed to build_messages never has more elements
\* than the effective top_k of the request.
C6_AtMostTopK ==
  messages.built => Len(messages.documents) <= RequestTopK

\* C7: the query that results from the rewrite step is never empty, and
\* retrieval is never called with an empty query.
C7_RewriteNeverEmpty ==
  /\ pc \in {"retrieve", "retrieve_wait"} => rewritten_query # <<>>
  /\ inflight.svc = "retrieve" => inflight.query # <<>>

\* The block of a reply content: after the last start marker, up to the
\* first end marker that follows it.
LastStart(c) == Max(Occurrences(c, StartMarker))
EndsAfter(c) == {i \in Occurrences(c, EndMarker) : i > LastStart(c)}
HasBlock(c) == Occurrences(c, StartMarker) # {} /\ EndsAfter(c) # {}
Block(c) == SubSeq(c, LastStart(c) + 1, Min(EndsAfter(c)) - 1)

Rewrote == probe.fn = "rewrite_query" /\ probe.called

\* C8: for a reply whose content holds `<rewrite>X</rewrite>`, X being the
\* text after the last start marker up to the first end marker that follows
\* it, rewrite_query returns X trimmed.
C8_ReturnsBlockTrimmed ==
  (Rewrote /\ probe.reply.kind = "content" /\ HasBlock(probe.reply.content)) =>
    probe.result = Return(Strip(Block(probe.reply.content)))

\* Replies with no choices, or whose first choice has no content or content
\* that is empty after trimming.
EmptyReply(reply) ==
  \/ reply.kind \in {"choices_missing", "choices_null", "choices_empty",
                     "message_missing", "message_null", "content_missing",
                     "content_null"}
  \/ reply.kind = "content" /\ Strip(reply.content) = <<>>

\* C9: with rewriting enabled, for a reply with no choices or with missing or
\* empty (after trimming) content, rewrite_query returns the original query
\* and raises nothing.
C9_EmptyReplyFallsBack ==
  (Rewrote /\ EmptyReply(probe.reply)) => probe.result = Return(probe.query)

\* C9 witness: rewrite_query answered a reply whose content is whitespace.
C9_Witness ==
  /\ Rewrote
  /\ settings.rewriter_enabled
  /\ probe.reply.kind = "content"
  /\ probe.reply.content = <<" ", " ">>
  /\ probe.result = Return(probe.query)

\* C10: with rewriting disabled, rewrite_query returns every query unchanged
\* without a call to the completion service, the handler issues no rewrite
\* call, and retrieval is called with the original query.
C10_DisabledRewriteIsIdentity ==
  ~settings.rewriter_enabled =>
    /\ ~RewriteSends(settings)
    /\ \A q \in Queries : \A reply \in CompletionReplies(ChatRewriteContents) :
         rewrite_query(settings, q, reply) = Return(q)
    /\ calls.rewrite = 0
    /\ inflight.svc # "rewrite"
    /\ pc # "rewrite_wait"
    /\ inflight.svc = "retrieve" => inflight.query = request.query

\* C10 witness: rewriting is disabled and the retrieval call is in flight.
C10_Witness ==
  /\ ~settings.rewriter_enabled
  /\ settings.api_key
  /\ inflight.svc = "retrieve"
  /\ calls.rewrite = 0

\* The rewrite stage of the request ended in an error of rewrite_query: no
\* credential, no connection, a non-2xx status, a body that is no JSON, or a
\* JSON body of another shape than {"choices": [{"message": {"content": str}}]}.
RewriteErrored ==
  /\ outcome.svc = "rewrite"
  /\ outcome.kind \in
       {"no_credential", "transport_error", "status_error", "undecodable"}
         \cup ReplyShapes

\* C11: every error of the rewrite stage is swallowed: the request does not
\* fail because of it, the original query is used, and the handler goes on to
\* retrieval.
C11_RewriteErrorsSwallowed ==
  RewriteErrored =>
    /\ pc \in {"retrieve", "retrieve_wait"}
    /\ rewritten_query = request.query
    /\ response = NoResponse

\* C12: with no retrieval endpoint configured the request ends with HTTP 500
\* naming the missing configuration, and no call to the completion service
\* was made for it, neither for rewriting nor for generation.
C12_UnconfiguredRetrievalNoCompletionCall ==
  (~settings.retrieval_url /\ pc = "done") =>
    /\ response.status = 500
    /\ response.detail = "RAG_API_URL is not configured"
    /\ calls.rewrite = 0
    /\ calls.generate = 0

\* The retrieval stage of the request failed: no endpoint configured, a
\* non-2xx status of the retrieval service, or a transport failure.
RetrievalFailed ==
  /\ outcome.svc = "retrieve"
  /\ outcome.kind \in {"not_configured", "status_error", "transport_error"}

\* C13: a retrieval failure ends the request with an error response: 500 for
\* the configuration error, the upstream's status for a non-2xx, 502 for a
\* transport failure; no prompt is built and no generation call is made.
C13_RetrievalFailureTerminal ==
  RetrievalFailed =>
    /\ pc = "done"
    /\ outcome.kind = "not_configured" => response.status = 500
    /\ outcome.kind = "status_error" => response.status = outcome.status
    /\ outcome.kind = "transport_error" => response.status = 502
    /\ response.answer = <<>>
    /\ ~messages.built
    /\ calls.generate = 0
    /\ inflight = NoCall
    /\ gen_pc = "idle"

\* C13 witness: the retrieval service answered 503 and so did the request.
C13_Witness ==
  /\ RetrievalFailed
  /\ outcome.kind = "status_error"
  /\ outcome.status = 503
  /\ response.status = 503
  /\ calls.retrieve = 1

\* The reply to the generation call has no choices, or its first choice has
\* no content, or content that is empty once trimmed.
NoAnswerInReply ==
  \/ outcome.kind \in {"choices_missing", "choices_null", "choices_empty"}
  \/ outcome.kind \in {"message_missing", "message_null", "content_missing",
                       "content_null"}
  \/ outcome.kind = "content" /\ Strip(outcome.content) = <<>>

\* C14: in a non-streaming request whose retrieval succeeded, a missing
\* credential answers 500, an upstream non-2xx answers the upstream's status,
\* a transport failure answers 502, and a 2xx reply without choices or
\* without non-blank content answers 502; none of them answers 200.
C14_GenerationFailureMapping ==
  (outcome.svc = "chat" /\ ~request.stream /\ messages.built) =>
    /\ outcome.kind = "no_credential" => response.status = 500
    /\ outcome.kind = "status_error" => response.status = outcome.status
    /\ outcome.kind = "transport_error" => response.status = 502
    /\ NoAnswerInReply => response.status = 502
    /\ (outcome.kind \in {"no_credential", "status_error", "transport_error"}
          \/ NoAnswerInReply)
       => response.status # 200 /\ response.answer = <<>>

\* C14 witness: the generation reply carried blank content and the request
\* was answered 502.
C14_Witness ==
  /\ outcome.svc = "chat"
  /\ ~request.stream
  /\ outcome.kind = "content"
  /\ outcome.content = <<" ">>
  /\ response.status = 502

\* The rewrite call of the request came back with content that is not blank:
\* rewrite_query returned the text it extracted from it.
RewriteSucceeded ==
  /\ outcome.svc = "rewrite"
  /\ outcome.kind = "content"
  /\ Strip(outcome.content) # <<>>

\* C15: the retrieval call carries the output of the rewrite when the rewrite
\* succeeded, and the original query when the rewrite fell back or was
\* skipped.
C15_RetrievalUsesRewrittenQuery ==
  inflight.svc = "retrieve" =>
    inflight.query = IF RewriteSucceeded
                     THEN ExtractRewrite(Strip(outcome.content))
                     ELSE request.query

\* C15 witness: the rewrite returned "a" for another query and the retrieval
\* call in flight carries "a".
C15_Witness ==
  /\ settings.rewriter_enabled
  /\ RewriteSucceeded
  /\ inflight.svc = "retrieve"
  /\ inflight.query = <<"a">>
  /\ request.query # <<"a">>

\* retrieve was called directly and sent its POST.
RetrieveSent == probe.fn = "retrieve" /\ probe.sent

\* C16: the body of the retrieval request has the key rerank_top_k exactly
\* when reranking is effectively enabled, and its value is the rerank_top_k
\* argument if given, else the configured rerank_top_k if set, else the
\* effective top_k.
C16_RerankTopKPrecedence ==
  RetrieveSent =>
    /\ probe.payload.has_rerank_top_k <=> probe.payload.use_rerank
    /\ probe.payload.has_rerank_top_k =>
         probe.payload.rerank_top_k =
           IF request.rerank_top_k # 0 THEN request.rerank_top_k
           ELSE IF settings.rerank_top_k # 0 THEN settings.rerank_top_k
           ELSE probe.payload.k
    /\ probe.payload.k =
         IF request.top_k # 0 THEN request.top_k ELSE settings.top_k

\* C16 witness: no rerank_top_k argument, a configured default that differs
\* from the effective top_k, and the default is what the request carries.
C16_Witness ==
  /\ RetrieveSent
  /\ request.rerank_top_k = 0
  /\ settings.rerank_top_k = 2
  /\ probe.payload.k = 1
  /\ probe.payload.has_rerank_top_k
  /\ probe.payload.rerank_top_k = 2

\* C20: use_rerank and rerank_mode of the retrieval request are the call's
\* argument when one is given and the configured default otherwise; an
\* explicit use_rerank = False wins over a configured True; rerank_mode is in
\* lower case when there is one and null when neither source has one.
C20_RerankArgumentPrecedence ==
  RetrieveSent =>
    /\ request.use_rerank = "True" => probe.payload.use_rerank
    /\ request.use_rerank = "False" => ~probe.payload.use_rerank
    /\ request.use_rerank = "None" =>
         probe.payload.use_rerank = settings.use_rerank
    /\ request.rerank_mode # NoMode =>
         probe.payload.rerank_mode = Lower(request.rerank_mode)
    /\ (request.rerank_mode = NoMode /\ settings.rerank_mode # NoMode) =>
         probe.payload.rerank_mode = Lower(settings.rerank_mode)
    /\ (request.rerank_mode = NoMode /\ settings.rerank_mode = NoMode) =>
         probe.payload.rerank_mode = NoMode
    /\ probe.payload.rerank_mode \in {NoMode, "cross", "bi"}

\* C20 witness: use_rerank = False and rerank_mode = "CROSS" are passed
\* against a configuration that enables reranking in mode "bi".
C20_Witness ==
  /\ RetrieveSent
  /\ request.use_rerank = "False"
  /\ settings.use_rerank
  /\ ~probe.payload.use_rerank
  /\ request.rerank_mode = "CROSS"
  /\ settings.rerank_mode = "bi"
  /\ probe.payload.rerank_mode = "cross"

\* The order of the stages as the state shows it: a rewrite call in flight
\* precedes every retrieval and generation call; once retrieval was called
\* the rewrite stage is over; the prompt is built only after the one
\* retrieval call came back; a generation call needs the prompt.
StageOrder ==
  /\ inflight.svc = "rewrite" =>
       pc = "rewrite_wait" /\ calls.retrieve = 0 /\ calls.generate = 0
  /\ calls.retrieve > 0 => pc \notin {"rewrite", "rewrite_wait"}
  /\ inflight.svc = "retrieve" =>
       pc = "retrieve_wait" /\ ~messages.built /\ calls.generate = 0
  /\ messages.built =>
       /\ calls.retrieve = 1
       /\ inflight.svc \notin {"rewrite", "retrieve"}
       /\ pc \in {"generate", "generate_wait", "done"}
  /\ calls.generate > 0 => messages.built /\ calls.generate = 1
  /\ inflight.svc \in {"chat", "stream"} => messages.built

\* An upstream call starts only while no other one is in flight.
CallStartsAlone ==
  (calls' # calls \/ (inflight' # inflight /\ inflight' # NoCall)) =>
    inflight = NoCall /\ inflight' # NoCall

\* C17: the stages of one request run strictly one after the other (rewrite
\* over before retrieval starts, retrieval over before the prompt is built,
\* generation started only with the prompt built), and no upstream call
\* starts while another one of the request is in flight.
C17_StagesSequential == [](StageOrder) /\ [][CallStartsAlone]_vars

\* C17 witness: the generation call is in flight after a rewrite call and a
\* retrieval call of the same request.
C17_Witness ==
  /\ inflight.svc = "chat"
  /\ calls = [rewrite |-> 1, retrieve |-> 1, generate |-> 1]
  /\ messages.built

\* The delta frames of the response, in the order they were yielded.
Deltas == SelectSeq(frames, LAMBDA f : f.event = "delta")

\* C18: the delta frames are the fragments the completion stream yielded, one
\* frame per fragment in the same order and with the fragment's text, and the
\* frame of a fragment is out before the next fragment is read.
C18_DeltasMirrorFragments ==
  /\ Len(Deltas) = Len(buffer)
  /\ \A i \in 1..Len(buffer) :
       /\ frames[i + 1].event = "delta"
       /\ frames[i + 1].text = buffer[i].text

\* C18 witness: two different fragments were read and the stream is over.
C18_Witness ==
  /\ gen_pc = "closed"
  /\ Len(buffer) = 2
  /\ buffer[1] = StrChunk(<<"a">>)
  /\ buffer[2] = StrChunk(<<" ">>)
  /\ Len(Deltas) = 2

\* The value of the first of combined_score, rerank_score, score that the
\* item has, as a float; None when it has none of them.
FirstPresentScore(item) ==
  IF item.combined_score # "None" THEN maybe_float(item.combined_score)
  ELSE IF item.rerank_score # "None" THEN maybe_float(item.rerank_score)
  ELSE maybe_float(item.score)

\* C19: the document made of an item has the item's name as title, the
\* trimmed text (the name when there is no text) as content, and as score the
\* first of combined_score, rerank_score, score that the item has, 0 included.
C19_NormalizerFields ==
  (probe.fn = "normalize" /\ probe.kept) =>
    /\ probe.document.title = probe.item.name
    /\ probe.document.content =
         Strip(IF probe.item.text # <<>> THEN probe.item.text
               ELSE probe.item.name)
    /\ probe.document.score = FirstPresentScore(probe.item)

\* The lines of a stream that precede its first sentinel line.
RECURSIVE BeforeSentinel(_)
BeforeSentinel(lines) ==
  IF lines = <<>> \/ Head(lines) = DoneLine THEN <<>>
  ELSE <<Head(lines)>> \o BeforeSentinel(Tail(lines))

\* The non-empty contents of the data lines among `lines`, in their order.
RECURSIVE Contents(_)
Contents(lines) ==
  IF lines = <<>> THEN <<>>
  ELSE IF Head(lines).kind = "content"
  THEN <<Head(lines).chunk>> \o Contents(Tail(lines))
  ELSE Contents(Tail(lines))

\* C21: over every sequence of upstream lines stream_chat yields exactly the
\* non-empty contents of the JSON data lines before the first sentinel, in
\* upstream order; every other line is passed over without ending the
\* sequence, and the sequence ends at the sentinel or with the connection.
C21_YieldsContentsBeforeSentinel ==
  probe.fn = "stream_chat" =>
    probe.yielded = Contents(BeforeSentinel(probe.lines))

\* C22: when the rewrite step produced a query that differs from the
\* original, the query in the prompt is the rewritten query, the one that was
\* sent to retrieval.
C22_PromptUsesRewrittenQuery ==
  (pc = "generate" /\ messages.built /\ rewritten_query # request.query) =>
    messages.query = Strip(rewritten_query)

\* retrieve returned: the retrieval service answered 2xx with a bare array of
\* items or with an object holding them under `results`.
RetrieveReturned ==
  /\ outcome.svc = "retrieve"
  /\ outcome.kind \in {"array", "results", "results_null"}

\* The items of the reply whose text is not empty once trimmed, in the
\* reply's order.
UsableItems == SelectSeq(outcome.content, LAMBDA it : Strip(it.text) # <<>>)

\* C23: every document retrieve returns has content that is non-empty and
\* trimmed; the documents are the reply's items without those whose content
\* is empty after trimming, in the reply's order, whether the reply is a bare
\* array or an object with `results`.
C23_DocumentsAreUsableItems ==
  RetrieveReturned =>
    /\ \A i \in 1..Len(retrieved_docs) :
         /\ retrieved_docs[i].content # <<>>
         /\ retrieved_docs[i].content = Strip(retrieved_docs[i].content)
    /\ Len(retrieved_docs) = Len(UsableItems)
    /\ \A i \in 1..Len(retrieved_docs) :
         /\ retrieved_docs[i].id = UsableItems[i].id
         /\ retrieved_docs[i].content = Strip(UsableItems[i].text)

\* C23 witness: an object reply of three items, the first of them blank, gave
\* the two others as documents.
C23_Witness ==
  /\ RetrieveReturned
  /\ outcome.kind = "results"
  /\ Len(outcome.content) = 3
  /\ Strip(outcome.content[1].text) = <<>>
  /\ Len(retrieved_docs) = 2
  /\ retrieved_docs[1].id = 2

\* C24: no upstream call is retried: whatever errors occur, the request
\* issues the rewrite call, the retrieval call and the generation call at
\* most once each.
C24_NoRetry ==
  /\ calls.rewrite <= 1
  /\ calls.retrieve <= 1
  /\ calls.generate <= 1

\* C24 witness: the rewrite call failed, the retrieval call succeeded, the
\* generation call failed, and each was issued once.
C24_Witness ==
  /\ pc = "done"
  /\ rewritten_query = request.query
  /\ outcome.svc = "chat"
  /\ outcome.kind = "transport_error"
  /\ response.status = 502
  /\ calls = [rewrite |-> 1, retrieve |-> 1, generate |-> 1]

\* One block of the body is a frame: the line `event: <name>` with a known
\* name, then the line `data: <payload>`, and nothing else.
WellFormedBlock(block) ==
  /\ Len(block) >= 4
  /\ block[1] = "event: "
  /\ block[2] \in {"meta", "delta", "end", "error"}
  /\ block[3] = "\n"
  /\ block[4] = "data: "
  /\ \A i \in 5..Len(block) : block[i] # "\n"

\* C25: the body of a streamed response, cut at its blank lines, is exactly
\* 1 + (number of fragments) + 1 frames, each of the shape `event: <name>`,
\* newline, `data: <payload>`, whatever the fragments, newlines included.
C25_BodyIsWellFormedFrames ==
  probe.fn = "streaming_response" =>
    /\ Len(probe.blocks) = 1 + Len(probe.fragments) + 1
    /\ \A i \in 1..Len(probe.blocks) : WellFormedBlock(probe.blocks[i])

\* Retrieval succeeded and left no usable document for the prompt.
ZeroDocuments == messages.built /\ trimmed_docs = <<>>

\* C26: with zero usable documents the request goes on: the prompt holds the
\* placeholder in place of the context, the generation call is made all the
\* same (buffered or streamed, the credential being there), and the response
\* reports an empty document list.
C26_ZeroDocumentsStillGenerates ==
  ZeroDocuments =>
    /\ messages.placeholder
    /\ messages.documents = <<>>
    /\ pc \in {"generate", "generate_wait", "done"}
    /\ (pc = "done" /\ ~request.stream /\ settings.api_key) =>
         calls.generate = 1
    /\ (gen_pc \notin {"idle", "meta", "open"} /\ settings.api_key) =>
         calls.generate = 1
    /\ inflight.svc \in {"chat", "stream"} => inflight.documents = <<>>
    /\ response.status = 200 => response.documents = <<>>
    /\ frames # <<>> => frames[1] = MetaFrame(<<>>)

\* C26 witness: a reply whose only item is blank left no document, and the
\* request was answered 200 with an answer and no documents.
C26_Witness ==
  /\ ZeroDocuments
  /\ ~request.stream
  /\ pc = "done"
  /\ calls.generate = 1
  /\ response.status = 200
  /\ response.answer # <<>>
  /\ response.documents = <<>>

\* A finished handler ended as its request ends when it runs alone against
\* the same replies: same query sent to retrieval, documents, prompt,
\* response and frames.
SameAsAlone(h) ==
  h = [RunAlone(settings, h.request, h.replies) EXCEPT
         !.overlapped = h.overlapped]

\* C27: whatever the interleaving of the stages of two requests, each one
\* ends as if it had run alone against the same upstream replies, and the
\* shared configuration is never modified.
C27_RequestsDoNotInterfere ==
  /\ [](\A i \in DOMAIN handlers :
          handlers[i].pc = "done" => SameAsAlone(handlers[i]))
  /\ [][settings' = settings]_vars

\* C27 witness: two requests with different queries and different rewrites
\* both ended, each having run a stage while the other was under way.
C27_Witness ==
  /\ DOMAIN handlers = Handlers
  /\ \A i \in Handlers : handlers[i].pc = "done" /\ handlers[i].overlapped
  /\ handlers[1].request.query # handlers[2].request.query
  /\ handlers[1].sent_query = <<"a">>
  /\ handlers[2].sent_query = handlers[2].request.query
  /\ handlers[1].response.status = 200
  /\ handlers[2].response.status = 200

\* C28: the documents reported to the client are the list the prompt was
\* built from, same elements in the same order: the `documents` of a
\* non-streaming response and the `documents` of the meta frame both equal
\* the trimmed list handed to build_messages.
C28_ReportedDocumentsArePromptDocuments ==
  /\ (response.status = 200 /\ ~response.streaming) =>
       messages.built /\ response.documents = messages.documents
  /\ frames # <<>> =>
       /\ messages.built
       /\ frames[1].event = "meta"
       /\ frames[1].documents = messages.documents

\* C28 witness: a stream ended whose meta frame reported the two documents
\* of the prompt, the second upstream item first.
C28_Witness ==
  /\ gen_pc = "closed"
  /\ Len(messages.documents) = 2
  /\ messages.documents[1].id = 2
  /\ frames[1].documents = messages.documents
  /\ frames[Len(frames)].event = "end"

\* C29: in a streaming request no frame is emitted and no generation call is
\* started before retrieval has succeeded; a retrieval failure gives the HTTP
\* error status it gives without streaming and no frame at all; and the
\* streaming generation call starts only after the meta frame is out.
C29_StreamStartsAfterRetrieval ==
  request.stream =>
    /\ (frames # <<>> \/ calls.generate > 0 \/ gen_pc # "idle") =>
         messages.built /\ calls.retrieve = 1
    /\ RetrievalFailed =>
         /\ frames = <<>>
         /\ gen_pc = "idle"
         /\ calls.generate = 0
         /\ ~response.streaming
         /\ outcome.kind = "not_configured" => response.status = 500
         /\ outcome.kind = "status_error" => response.status = outcome.status
         /\ outcome.kind = "transport_error" => response.status = 502
    /\ (calls.generate > 0 \/ inflight.svc = "stream") =>
         frames # <<>> /\ frames[1].event = "meta"

\* C29 witness: a streaming request whose retrieval call met a transport
\* failure ended with status 502 and no frame.
C29_Witness ==
  /\ request.stream
  /\ RetrievalFailed
  /\ outcome.kind = "transport_error"
  /\ pc = "done"
  /\ response.status = 502
  /\ frames = <<>>

====
